---- MODULE Spec2Model ----
(***************************************************************************)
(* A model of graphgallery/transformers/adj_transformer/normalize_adj.py:  *)
(* the function normalize_adj, its inner function normalize, and the       *)
(* NormalizeAdj transformer object that forwards to it.                    *)
(*                                                                         *)
(* Numbers.  The code computes in float64.  A float is modelled as a       *)
(* fraction [num, den] of naturals in lowest terms, with the two IEEE      *)
(* special values the code can produce from non-negative input:            *)
(* inf = 1/0 and nan = 0/0.  Products follow IEEE (inf * 0 = nan); finite  *)
(* arithmetic is exact, so rounding is not modelled.  Exponents are        *)
(* integers, which keeps every power a fraction.                           *)
(*                                                                         *)
(* Matrices.  A matrix is a record [family, n, stored, val]: family is     *)
(* "sparse" (any scipy sparse class) or "dense" (ndarray / np.matrix),     *)
(* stored is the set of positions that hold a value (all of them for a     *)
(* dense matrix) and val gives the value of each stored position.          *)
(*                                                                         *)
(* Objects.  heap is the sequence of matrix objects alive after a call:    *)
(* the caller's inputs at 1..size, then the objects the call returned.     *)
(* An object's identity is its index in heap.                              *)
(***************************************************************************)
EXTENDS Integers, Sequences, FiniteSets, TLC

\* Largest number of nodes of an input matrix.
MaxN == 2
\* Largest number of matrices in one call.
MaxBatch == 2

(***************************************************************************)
(* float64 values                                                          *)
(***************************************************************************)
RECURSIVE Gcd(_, _)
Gcd(a, b) == IF b = 0 THEN a ELSE Gcd(b, a % b)

Frac(n, d) == LET g == Gcd(n, d) IN [num |-> n \div g, den |-> d \div g]

Float(k) == [num |-> k, den |-> 1]

Zero == [num |-> 0, den |-> 1]

Inf == [num |-> 1, den |-> 0]

NaN == [num |-> 0, den |-> 0]

IsFinite(x) == x.den # 0

IsZero(x) == x.den # 0 /\ x.num = 0

\* x + y in float64
Add(x, y) ==
    IF x = NaN \/ y = NaN THEN NaN
    ELSE IF x = Inf \/ y = Inf THEN Inf
    ELSE Frac(x.num * y.den + y.num * x.den, x.den * y.den)

\* x * y in float64: inf * 0 is nan
Mul(x, y) ==
    IF x = NaN \/ y = NaN THEN NaN
    ELSE IF x = Inf \/ y = Inf
         THEN (IF IsZero(x) \/ IsZero(y) THEN NaN ELSE Inf)
    ELSE Frac(x.num * y.num, x.den * y.den)

RECURSIVE IntPow(_, _)
IntPow(b, e) == IF e = 0 THEN 1 ELSE b * IntPow(b, e - 1)

\* np.power(x, r) for one float x >= 0 and one exponent r: 0 ** negative is
\* inf (numpy warns, it does not raise), x ** 0 is 1.
Power(x, r) ==
    IF r = 0 THEN Float(1)
    ELSE IF x = NaN THEN NaN
    ELSE IF x = Inf THEN (IF r > 0 THEN Inf ELSE Zero)
    ELSE IF x.num = 0 THEN (IF r > 0 THEN Zero ELSE Inf)
    ELSE IF r > 0 THEN Frac(IntPow(x.num, r), IntPow(x.den, r))
    ELSE Frac(IntPow(x.den, 0 - r), IntPow(x.num, 0 - r))

(***************************************************************************)
(* rates                                                                   *)
(*                                                                         *)
(* One rate element is None or a float exponent; the rate argument is a    *)
(* single element ("scalar") or a list of elements ("list").               *)
(***************************************************************************)
None == [none |-> TRUE, x |-> 0]

Num(r) == [none |-> FALSE, x |-> r]

Scalar(e) == [shape |-> "scalar", v |-> <<e>>]

List(s) == [shape |-> "list", v |-> s]

\* `r is None`
IsNone(r) == r.shape = "scalar" /\ r.v[1].none

(***************************************************************************)
(* matrices                                                                *)
(***************************************************************************)
Pos(n) == (1..n) \X (1..n)

\* The value at position p, stored or not.
Entry(m, p) == IF p \in m.stored THEN m.val[p] ELSE Zero

\* adj + selfloop * sp.eye(n).  A sparse operand gives a new sparse (csr)
\* matrix whose stored positions are the nonzero sums: scipy's csr addition
\* keeps no zero result.  A dense operand gives a new dense matrix.
AddSelfloop(m, selfloop) ==
    LET sum == [p \in Pos(m.n) |->
                   Add(Entry(m, p), IF p[1] = p[2] THEN Float(selfloop) ELSE Zero)]
    IN  IF m.family = "sparse"
        THEN LET st == {p \in Pos(m.n) : ~IsZero(sum[p])}
             IN  [family |-> "sparse", n |-> m.n, stored |-> st,
                  val |-> [p \in st |-> sum[p]]]
        ELSE [family |-> "dense", n |-> m.n, stored |-> Pos(m.n), val |-> sum]

RECURSIVE RowSum(_, _, _)
RowSum(m, i, j) == IF j = 0 THEN Zero ELSE Add(RowSum(m, i, j - 1), Entry(m, <<i, j>>))

\* adj.sum(1).A1
Degree(m) == [i \in 1..m.n |-> RowSum(m, i, m.n)]

\* np.power(degree, r).  r is a float or a list; a list is broadcast against
\* degree by numpy's rules (equal lengths pair up, a length of 1 stretches,
\* anything else raises ValueError), and a None inside a list raises
\* TypeError.
NpPower(degree, r) ==
    LET n == Len(degree)
        l == Len(r.v)
    IN  IF \E k \in 1..l : r.v[k].none
        THEN [exc |-> "TypeError", v |-> <<>>]
        ELSE IF l = 1 THEN [exc |-> "", v |-> [i \in 1..n |-> Power(degree[i], r.v[1].x)]]
        ELSE IF l = n THEN [exc |-> "", v |-> [i \in 1..n |-> Power(degree[i], r.v[i].x)]]
        ELSE IF n = 1 THEN [exc |-> "", v |-> [i \in 1..l |-> Power(degree[1], r.v[i].x)]]
        ELSE [exc |-> "ValueError", v |-> <<>>]

\* A slip in the sparse scaling: the row's factor used on both sides.
SparseScaleRowTwice(adj, degree_power) ==
    [exc |-> "",
     m |-> [adj EXCEPT !.val = [p \in adj.stored |->
               Mul(Mul(degree_power[p[1]], adj.val[p]), degree_power[p[1]])]]]

\* adj.tocoo(); adj.data = degree_power[adj.row] * adj.data * degree_power[adj.col];
\* adj.tocsr(): every stored entry is scaled, the stored positions stay.
SparseScale(adj, degree_power) ==
    [exc |-> "",
     m |-> [adj EXCEPT !.val = [p \in adj.stored |->
               Mul(Mul(degree_power[p[1]], adj.val[p]), degree_power[p[2]])]]]

\* A slip in the dense branch: the product kept sparse, its zeros dropped.
DenseScaleKeptSparse(adj, degree_power) ==
    LET v == [p \in Pos(adj.n) |->
                 Mul(degree_power[p[2]], Mul(degree_power[p[1]], adj.val[p]))]
        st == {p \in Pos(adj.n) : ~IsZero(v[p])}
    IN  IF Len(degree_power) # adj.n
        THEN [exc |-> "ValueError", m |-> adj]
        ELSE [exc |-> "",
              m |-> [family |-> "sparse", n |-> adj.n, stored |-> st,
                     val |-> [p \in st |-> v[p]]]]

\* sp.diags(degree_power) @ adj @ sp.diags(degree_power), then .A: every
\* position is scaled; the product raises ValueError when the diagonal
\* matrix does not have adj's size.
DenseScale(adj, degree_power) ==
    IF Len(degree_power) # adj.n
    THEN [exc |-> "ValueError", m |-> adj]
    ELSE [exc |-> "",
          m |-> [adj EXCEPT !.val = [p \in Pos(adj.n) |->
                    Mul(degree_power[p[2]], Mul(degree_power[p[1]], adj.val[p]))]]]

\* A slip at the self-loop step: `adj += ...`, which writes into the caller's
\* object.
InPlaceAdd(h, a, selfloop) ==
    [heap |-> [h EXCEPT ![a] = AddSelfloop(h[a], selfloop)], id |-> a]

\* `adj = adj + selfloop * sp.eye(adj.shape[0])`: the sum is a new object,
\* the local name adj is rebound to it, the caller's object is untouched.
NewCopy(h, a, selfloop) ==
    [heap |-> Append(h, AddSelfloop(h[a], selfloop)), id |-> Len(h) + 1]

\* A slip in normalize: the None test left out, None falling back to an
\* exponent of -1.
normalizeNoneScaled(h, a, r, selfloop) ==
    LET c == NewCopy(h, a, selfloop)
        adj == c.heap[c.id]
        rr == IF IsNone(r) THEN Scalar(Num(-1)) ELSE r
        degree_power == NpPower(Degree(adj), rr)
        scaled == IF adj.family = "sparse"
                  THEN SparseScale(adj, degree_power.v)
                  ELSE DenseScale(adj, degree_power.v)
    IN  IF degree_power.exc # ""
        THEN [heap |-> c.heap, exc |-> degree_power.exc, id |-> 0]
        ELSE IF scaled.exc # ""
        THEN [heap |-> c.heap, exc |-> scaled.exc, id |-> 0]
        ELSE [heap |-> [c.heap EXCEPT ![c.id] = scaled.m], exc |-> "", id |-> c.id]

\* normalize(adj, r) on the object at index a of heap h: the heap afterwards,
\* the exception raised ("" for none) and the index of the returned object.
normalize(h, a, r, selfloop) ==
    LET c == NewCopy(h, a, selfloop)
        adj == c.heap[c.id]
    IN  IF IsNone(r) THEN [heap |-> c.heap, exc |-> "", id |-> c.id]
        ELSE LET degree_power == NpPower(Degree(adj), r)
                 scaled == IF adj.family = "sparse"
                           THEN SparseScale(adj, degree_power.v)
                           ELSE DenseScale(adj, degree_power.v)
             IN  IF degree_power.exc # ""
                 THEN [heap |-> c.heap, exc |-> degree_power.exc, id |-> 0]
                 ELSE IF scaled.exc # ""
                 THEN [heap |-> c.heap, exc |-> scaled.exc, id |-> 0]
                 ELSE [heap |-> [c.heap EXCEPT ![c.id] = scaled.m],
                       exc |-> "", id |-> c.id]

\* Truncation, padding with the last element, cycling, or the list as it is.
Mismatched(s, length) ==
    { [i \in 1..length |-> IF i <= Len(s) THEN s[i] ELSE s[Len(s)]],
      [i \in 1..length |-> s[((i - 1) % Len(s)) + 1]],
      s }

\* graphgallery.utils.shape.repeat(src, length): a scalar is replicated, a
\* list of the right length is returned as it is, a list of length 1 is
\* broadcast; any other length is left undefined, and every outcome that
\* does not raise is possible.
repeat(src, length) ==
    IF src.shape = "scalar" THEN {[i \in 1..length |-> src.v[1]]}
    ELSE IF Len(src.v) = length THEN {src.v}
    ELSE IF Len(src.v) = 1 THEN {[i \in 1..length |-> src.v[1]]}
    ELSE Mismatched(src.v, length)

\* A slip at the broadcast: the rate wrapped in a list instead of repeated.
BatchRatesNotRepeated(rate, size) == {rate.v}

\* `rates = repeat(rate, size)`
BatchRates(rate, size) == repeat(rate, size)

\* A slip in the pairing: every matrix paired with the first rate.
PairedFirst(rates, i) == rates[1]

\* zip(adj_matrics, rates): the i-th matrix goes with the i-th rate.
Paired(rates, i) == rates[i]

Min(a, b) == IF a < b THEN a ELSE b

\* tuple(normalize(adj, r) for adj, r in zip(adj_matrics, rates)) up to the
\* i-th pair: the heap, the exception that ended it, the indices so far.
RECURSIVE Zipped(_, _, _, _)
Zipped(h, rates, selfloop, i) ==
    IF i = 0 THEN [heap |-> h, exc |-> "", ids |-> <<>>]
    ELSE LET prev == Zipped(h, rates, selfloop, i - 1)
             one == normalize(prev.heap, i, Scalar(Paired(rates, i)), selfloop)
         IN  IF prev.exc # "" THEN prev
             ELSE IF one.exc # ""
             THEN [heap |-> prev.heap, exc |-> one.exc, ids |-> <<>>]
             ELSE [heap |-> one.heap, exc |-> "", ids |-> Append(prev.ids, one.id)]

\* What a call leaves behind: the inputs (objects 1..size) and the returned
\* objects; an exception returns nothing and the objects made so far are
\* dropped.
Returned(size, kind, r) ==
    IF r.exc # ""
    THEN [heap |-> SubSeq(r.heap, 1, size),
          ret |-> [kind |-> "raise", ids |-> <<>>, exc |-> r.exc]]
    ELSE [heap |-> r.heap, ret |-> [kind |-> kind, ids |-> r.ids, exc |-> ""]]

\* normalize_adj(*adj_matrics, rate, selfloop), adj_matrics being the objects
\* of heap h: the set of possible outcomes [heap, ret].
normalize_adj(h, rate, selfloop) ==
    LET size == Len(h)
    IN  IF size = 1
        THEN LET one == normalize(h, 1, rate, selfloop)
             IN  {Returned(size, "matrix",
                           [heap |-> one.heap, exc |-> one.exc, ids |-> <<one.id>>])}
        ELSE {Returned(size, "tuple",
                       Zipped(h, rates, selfloop, Min(size, Len(rates)))) :
                  rates \in BatchRates(rate, size)}

\* NormalizeAdj.__init__(rate, selfloop)
NormalizeAdjInit(rate, selfloop) == [rate |-> rate, selfloop |-> selfloop]

\* A slip in __call__: selfloop not forwarded, so the default 1.0 applies.
NormalizeAdjCallDefaultLoop(obj, h) == normalize_adj(h, obj.rate, 1)

\* NormalizeAdj.__call__(*adj_matrics)
NormalizeAdjCall(obj, h) == normalize_adj(h, obj.rate, obj.selfloop)

(***************************************************************************)
(* inputs                                                                  *)
(***************************************************************************)
\* Edge weights of the enumerated matrices: unweighted graphs.
Weights == {0, 1}

\* Exponents (the float rates).
Rates == {-1, 1, 2}

\* Self-loop weights.
Selfloops == {0, 1}

Dense(n, w) ==
    [family |-> "dense", n |-> n, stored |-> Pos(n),
     val |-> [p \in Pos(n) |-> Float(w[p])]]

\* A sparse matrix of weights w that also stores the (zero) positions z.
Sparse(n, w, z) ==
    LET st == {p \in Pos(n) : w[p] # 0} \cup z
    IN  [family |-> "sparse", n |-> n, stored |-> st,
         val |-> [p \in st |-> Float(w[p])]]

\* Every unweighted matrix of up to MaxN nodes, dense and sparse.
Matrices ==
    UNION {UNION {{Dense(n, w), Sparse(n, w, {})} : w \in [Pos(n) -> Weights]} :
              n \in 1..MaxN}

\* The two-node path, as in the documented scenarios.
Path2 == [p \in Pos(2) |-> IF p[1] = p[2] THEN 0 ELSE 1]

\* The two-node path with edge weight 2.
Heavy2 == [p \in Pos(2) |-> IF p[1] = p[2] THEN 0 ELSE 2]

\* One directed edge 1 -> 2: node 2 has no outgoing weight.
Arc2 == [p \in Pos(2) |-> IF p = <<1, 2>> THEN 1 ELSE 0]

\* The matrices of the batch calls and of the calls with a list of rates:
\* sparse and dense, weighted, with an explicitly stored zero, of one node.
Fixtures ==
    { Sparse(2, Path2, {}), Dense(2, Heavy2),
      Sparse(2, Arc2, {<<2, 2>>}), Dense(1, [p \in Pos(1) |-> 0]) }

ScalarRates == {Scalar(None)} \cup {Scalar(Num(r)) : r \in Rates}

\* Lists of rates of every length up to one more than the largest batch.
ListRates ==
    UNION {{List(s) : s \in [1..l -> {None, Num(-1)}]} : l \in 1..(MaxBatch + 1)}

(***************************************************************************)
(* the state machine                                                       *)
(***************************************************************************)
VARIABLES
    heap,    \* the matrix objects: the inputs first, then the last call's results
    size,    \* len(adj_matrics): the inputs are heap[1..size]
    args,    \* the caller's rate and selfloop
    self,    \* the NormalizeAdj object: [rate, selfloop]
    ret,     \* what the last call returned or raised
    last     \* the last call: "none", "function" or "object"

vars == <<heap, size, args, self, ret, last>>

Inputs == SubSeq(heap, 1, size)

\* The state once the caller holds its matrices and has constructed the
\* transformer: one matrix of any kind with a scalar rate, or up to MaxBatch
\* fixtures with a scalar rate or a list of rates.
Init ==
    /\ \/ /\ heap \in {<<m>> : m \in Matrices}
          /\ \E r \in ScalarRates, s \in Selfloops :
                 args = [rate |-> r, selfloop |-> s]
       \/ /\ heap \in UNION {[1..k -> Fixtures] : k \in 1..MaxBatch}
          /\ \E r \in ScalarRates \cup ListRates, s \in Selfloops :
                 args = [rate |-> r, selfloop |-> s]
    /\ size = Len(heap)
    /\ self = NormalizeAdjInit(args.rate, args.selfloop)
    /\ ret = [kind |-> "none", ids |-> <<>>, exc |-> ""]
    /\ last = "none"

\* normalize_adj(*adj_matrics, rate=rate, selfloop=selfloop)
CallFunction ==
    \E out \in normalize_adj(Inputs, args.rate, args.selfloop) :
        /\ heap' = out.heap
        /\ ret' = out.ret
        /\ last' = "function"
        /\ UNCHANGED <<size, args, self>>

\* transformer(*adj_matrics)
CallObject ==
    \E out \in NormalizeAdjCall(self, Inputs) :
        /\ heap' = out.heap
        /\ ret' = out.ret
        /\ last' = "object"
        /\ UNCHANGED <<size, args, self>>

Next == CallFunction \/ CallObject

Spec == Init /\ [][Next]_vars

(***************************************************************************)
(* vocabulary of the properties                                            *)
(***************************************************************************)
Called == last # "none"

Succeeded == ret.kind \in {"matrix", "tuple"}

\* The j-th input and the j-th returned matrix.
In(j) == heap[j]

Out(j) == heap[ret.ids[j]]

\* The rate that the interface assigns to the j-th matrix: a scalar goes to
\* every matrix; in a batch a list of one rate is broadcast and a list of
\* size rates is taken by position.  Other shapes assign none.
HasRate(j) ==
    \/ args.rate.shape = "scalar"
    \/ size > 1 /\ Len(args.rate.v) \in {1, size}

RateOf(j) ==
    IF args.rate.shape = "scalar" \/ Len(args.rate.v) = 1
    THEN args.rate.v[1] ELSE args.rate.v[j]

\* matrix + selfloop * I at position p, from the input's values.
Augmented(m, selfloop, p) ==
    Add(Entry(m, p), IF p[1] = p[2] THEN Float(selfloop) ELSE Zero)

RECURSIVE AugmentedRowSum(_, _, _, _)
AugmentedRowSum(m, selfloop, i, j) ==
    IF j = 0 THEN Zero
    ELSE Add(AugmentedRowSum(m, selfloop, i, j - 1), Augmented(m, selfloop, <<i, j>>))

\* degree[i] ** r of the augmented matrix.
DegreePower(m, selfloop, r, i) == Power(AugmentedRowSum(m, selfloop, i, m.n), r)

\* degree_power[i] * augmented[i,j] * degree_power[j]
Scaled(m, selfloop, r, p) ==
    Mul(Mul(DegreePower(m, selfloop, r, p[1]), Augmented(m, selfloop, p)),
        DegreePower(m, selfloop, r, p[2]))

Symmetric(m) == \A p \in Pos(m.n) : Entry(m, p) = Entry(m, <<p[2], p[1]>>)

\* The matrix a single-matrix call returns.
SingleResult(m, r, selfloop) ==
    LET o == CHOOSE o \in normalize_adj(<<m>>, r, selfloop) : TRUE
    IN  o.heap[o.ret.ids[1]]

(***************************************************************************)
(* the claims                                                              *)
(***************************************************************************)

\* C1: after a call with a numeric rate r, every entry (i, j) of every
\* returned matrix, sparse or dense, is
\* degree_power[i] * augmented[i,j] * degree_power[j].
C1_EveryEntryScaled ==
    Called =>
        \A j \in 1..size :
            (HasRate(j) /\ ~RateOf(j).none) =>
                /\ Succeeded
                /\ j <= Len(ret.ids)
                /\ \A p \in Pos(In(j).n) :
                       Entry(Out(j), p) = Scaled(In(j), args.selfloop, RateOf(j).x, p)

\* C2: a matrix whose rate is None comes back as matrix + selfloop * I,
\* entry for entry, in a single call and at any position of a batch.
C2_NoneRateGivesAugmented ==
    Called =>
        \A j \in 1..size :
            (HasRate(j) /\ RateOf(j).none) =>
                /\ Succeeded
                /\ j <= Len(ret.ids)
                /\ Out(j).n = In(j).n
                /\ \A p \in Pos(In(j).n) :
                       Entry(Out(j), p) = Augmented(In(j), args.selfloop, p)

\* A batch with a None rate at some position has returned, and the self-loop
\* changed that matrix.
C2_Witness ==
    /\ Called /\ size > 1 /\ args.rate.shape = "list" /\ Succeeded
    /\ \E j \in 1..size :
           /\ HasRate(j) /\ RateOf(j).none /\ ~RateOf(1).none
           /\ \E p \in Pos(In(j).n) : Entry(Out(j), p) # Entry(In(j), p)

\* C3: a batch of k > 1 matrices with a list of k rates returns a tuple of k
\* matrices, the i-th being what the single call on the i-th matrix with the
\* i-th rate returns.
C3_BatchIsPositional ==
    (Called /\ size > 1 /\ args.rate.shape = "list" /\ Len(args.rate.v) = size) =>
        /\ ret.kind = "tuple"
        /\ Len(ret.ids) = size
        /\ \A j \in 1..size :
               Out(j) = SingleResult(In(j), Scalar(args.rate.v[j]), args.selfloop)

\* A batch with two different rates has returned two different results for
\* two equal matrices.
C3_Witness ==
    /\ Called /\ size > 1 /\ args.rate.shape = "list" /\ Len(args.rate.v) = size
    /\ ret.kind = "tuple"
    /\ args.rate.v[1] # args.rate.v[2]
    /\ In(1) = In(2) /\ Out(1) # Out(2)

\* C4: a batch with a scalar rate r returns what the same batch returns with
\* the list of r repeated once per matrix.
C4_ScalarRateIsRepeated ==
    (Called /\ size > 1 /\ args.rate.shape = "scalar") =>
        [heap |-> heap, ret |-> ret] \in
            normalize_adj(Inputs, List([j \in 1..size |-> args.rate.v[1]]),
                          args.selfloop)

\* A batch with a numeric scalar rate has returned one matrix per input.
C4_Witness ==
    /\ Called /\ size > 1 /\ args.rate.shape = "scalar" /\ ~args.rate.v[1].none
    /\ ret.kind = "tuple" /\ Len(ret.ids) = size
    /\ Out(1) # In(1)

\* C5: no step changes an input matrix, and every returned matrix is an
\* object other than the inputs.
C5_InputsNeverMutated ==
    [][ /\ \A j \in 1..size : heap'[j] = heap[j]
        /\ \A i \in 1..Len(ret'.ids) : ret'.ids[i] > size ]_vars

\* A call on a sparse input with a numeric rate has returned a matrix that
\* differs from the input.
C5_Witness ==
    /\ Called /\ ret.kind = "matrix"
    /\ In(1).family = "sparse" /\ ~args.rate.v[1].none
    /\ Out(1) # In(1)

\* C6: a list of rates whose length is neither 1 nor the number of matrices
\* makes the call fail and return nothing, for one matrix or several.  Any
\* exception is taken for the InvalidArgument error.
C6_LengthMismatchRaises ==
    (Called /\ args.rate.shape = "list" /\ Len(args.rate.v) \notin {1, size}) =>
        ret.kind = "raise" /\ ret.ids = <<>>

\* C7: every returned matrix has the family of its input, and a sparse
\* result stores exactly the positions of the augmented matrix (its nonzero
\* positions), whatever the values there have become.
C7_FamilyAndPatternKept ==
    (Called /\ Succeeded) =>
        \A j \in 1..Len(ret.ids) :
            /\ Out(j).family = In(j).family
            /\ Out(j).family = "sparse" =>
                   Out(j).stored =
                       {p \in Pos(In(j).n) : ~IsZero(Augmented(In(j), args.selfloop, p))}
            /\ Out(j).family = "dense" => Out(j).stored = Pos(In(j).n)

\* A sparse result stores an entry that the scaling has turned into zero.
C7_Witness ==
    /\ Called /\ Succeeded
    /\ \E j \in 1..Len(ret.ids) :
           /\ Out(j).family = "sparse"
           /\ \E p \in Out(j).stored : IsZero(Out(j).val[p])

\* C8: a symmetric input with a numeric rate gives a symmetric result: the
\* entries at (i, j) and (j, i) are the same value.
C8_SymmetryPreserved ==
    Called =>
        \A j \in 1..size :
            (HasRate(j) /\ ~RateOf(j).none /\ Symmetric(In(j))) =>
                /\ Succeeded
                /\ j <= Len(ret.ids)
                /\ Symmetric(Out(j))

\* A symmetric sparse input whose two nodes have different degrees has been
\* scaled.
C8_Witness ==
    /\ Called /\ ret.kind = "matrix" /\ ~args.rate.v[1].none
    /\ In(1).family = "sparse" /\ In(1).n = 2 /\ Symmetric(In(1))
    /\ DegreePower(In(1), args.selfloop, args.rate.v[1].x, 1)
           # DegreePower(In(1), args.selfloop, args.rate.v[1].x, 2)
    /\ Out(1) # AddSelfloop(In(1), args.selfloop)

\* C9: with a node of degree zero and a negative rate the call does not
\* raise, and the returned matrix holds a non-finite value.
C9_NonFinitePropagated ==
    Called =>
        \A j \in 1..size :
            ( /\ HasRate(j) /\ ~RateOf(j).none /\ RateOf(j).x < 0
              /\ \E i \in 1..In(j).n : IsZero(AugmentedRowSum(In(j), args.selfloop, i, In(j).n)) )
            =>
                /\ Succeeded
                /\ j <= Len(ret.ids)
                /\ \E p \in Pos(In(j).n) : ~IsFinite(Entry(Out(j), p))

\* C10: the transformer holds the rate and selfloop it was constructed with,
\* no step changes them, a call on it leaves what normalize_adj leaves for
\* the same matrices with the stored rate and selfloop, and a second call
\* on it changes nothing (where the length of the rate list leaves the
\* outcome defined).
C10_TransformerForwardsItsConfiguration ==
    [][ /\ self.rate = args.rate /\ self.selfloop = args.selfloop
        /\ self' = self
        /\ last' = "object" =>
               [heap |-> heap', ret |-> ret'] \in
                   normalize_adj(Inputs, self.rate, self.selfloop)
        /\ ( /\ last = "object" /\ last' = "object"
             /\ ~(size > 1 /\ self.rate.shape = "list"
                    /\ Len(self.rate.v) \notin {1, size}) )
           => (heap' = heap /\ ret' = ret) ]_vars

\* The transformer, constructed without self-loops, has been called and has
\* returned a scaled matrix.
C10_Witness ==
    /\ last = "object" /\ ret.kind = "matrix"
    /\ self.selfloop = 0 /\ ~self.rate.v[1].none
    /\ Out(1) # In(1)

====
